---------------------------- MODULE Spec2Model ----------------------------
(***************************************************************************)
(* Model of scraper_app/views.py: the trigger_scrape orchestration (login  *)
(* and filter CAPTCHA checkpoints, result rows, pagination), the CAPTCHA   *)
(* relay (_wait_for_captcha_value polling the per-run cache slot) and the  *)
(* intake (get_status writing the slot of the latest run).                 *)
(*                                                                         *)
(* The browser and the target site are the environment: every browser step *)
(* draws its result from the results the code distinguishes.  A result     *)
(* other than the good one is counted in `faults`.                         *)
(***************************************************************************)
EXTENDS Integers, Sequences, FiniteSets, Bags, TLC

(***************************************************************************)
(* Program constants.                                                      *)
(***************************************************************************)
DEFAULT_WAIT == 30
CAPTCHA_WAIT_SECONDS == 180
CAPTCHA_TTL == 300
poll_interval == 1
max_attempts == 10

(***************************************************************************)
(* Bounds of the model.                                                    *)
(***************************************************************************)
MaxRuns == 2
MaxSubmissions == 2
MaxFaults == 1
MaxRows == 2
MaxPages == 2

RunIds == 1..MaxRuns
None == <<"None">>

(***************************************************************************)
(* StatusEvent messages.                                                   *)
(***************************************************************************)
MSG_INVALID_DATE == "Invalid date format. Expected YYYY-MM-DD."
MSG_FILLING_LOGIN == "Filling Username And Password To login"
MSG_PROMPT1 == "Please solve CAPTCHA #1 in the UI"
MSG_TIMEOUT1 == "CAPTCHA #1 timed out waiting for input. Retrying..."
MSG_SOLVED1 == "Captcha #1 solved successfully; logged in."
MSG_LOGIN_FAILED == "Login CAPTCHA solving failed after multiple attempts. Try again."
MSG_FILLING_FILTERS == "Filling District, Date, and Deed Type"
MSG_PROMPT2 == "Please solve CAPTCHA #2 in the UI"
MSG_TIMEOUT2 == "CAPTCHA #2 timed out waiting for input. Retrying..."
MSG_SOLVED2 == "CAPTCHA #2 solved successfully."
MSG_CAPTCHA2_FAILED == "CAPTCHA #2 solving failed after multiple attempts. Try again."
FetchingMsg(n) == "Fetching data of record index " \o ToString(n)
MSG_COMPLETED ==
  "Scraping completed successfully! Go to /get-status/ to review and download from /download-excel/"
MSG_ERROR == "Scraping failed due to an error. Please check logs and try again."

FilterPhaseMsgs == {MSG_FILLING_FILTERS, MSG_PROMPT2, MSG_TIMEOUT2, MSG_SOLVED2,
                    MSG_CAPTCHA2_FAILED}

(***************************************************************************)
(* Request inputs.  A date parameter is absent, or a text in one of two    *)
(* layouts: year, month and day joined by "-" (dash) or day, month and     *)
(* year joined by "/" (slash).  mw and dw are the numbers of digits the    *)
(* month and the day are written with; the year is written with four.      *)
(***************************************************************************)
DateInputs ==
  { [fmt |-> "none",  y |-> 0,    m |-> 0, d |-> 0,  mw |-> 0, dw |-> 0],
    [fmt |-> "dash",  y |-> 2023, m |-> 1, d |-> 31, mw |-> 2, dw |-> 2],
    [fmt |-> "dash",  y |-> 2023, m |-> 2, d |-> 30, mw |-> 2, dw |-> 2],
    [fmt |-> "dash",  y |-> 2023, m |-> 1, d |-> 31, mw |-> 1, dw |-> 2],
    [fmt |-> "slash", y |-> 2023, m |-> 1, d |-> 1,  mw |-> 2, dw |-> 2] }

IsLeap(y) == (y % 4 = 0) /\ ((y % 100 # 0) \/ (y % 400 = 0))

DaysInMonth(y, m) ==
  IF m = 2 THEN (IF IsLeap(y) THEN 29 ELSE 28)
  ELSE IF m \in {4, 6, 9, 11} THEN 30 ELSE 31

\* StrptimeOk without the calendar: any day up to 31 goes with any month.
StrptimeOk_NoCalendar(s) ==
  /\ s.fmt = "dash"
  /\ s.mw \in 1..2 /\ s.dw \in 1..2
  /\ s.m \in 1..12
  /\ s.d \in 1..31

\* datetime.strptime(s, "%Y-%m-%d") returns a date or raises.  %m and %d take
\* one or two digits; the date must exist.
StrptimeOk(s) ==
  /\ s.fmt = "dash"
  /\ s.mw \in 1..2 /\ s.dw \in 1..2
  /\ s.m \in 1..12
  /\ s.d \in 1..DaysInMonth(s.y, s.m)

\* .strftime("%d-%m-%Y"): day, month, year, the day and the month with two digits.
Strftime(s) == [fmt |-> "dmy", y |-> s.y, m |-> s.m, d |-> s.d, mw |-> 2, dw |-> 2]

(***************************************************************************)
(* Texts the operator may post as captcha_value, and str.strip().          *)
(***************************************************************************)
Texts == { <<>>, <<" ">>, <<"7">>, <<" ", "7", " ">> }

RECURSIVE LStrip(_)
LStrip(s) == IF s # <<>> /\ Head(s) = " " THEN LStrip(Tail(s)) ELSE s

RECURSIVE RStrip(_)
RStrip(s) ==
  IF s # <<>> /\ s[Len(s)] = " " THEN RStrip(SubSeq(s, 1, Len(s) - 1)) ELSE s

Strip(s) == RStrip(LStrip(s))

(***************************************************************************)
(* The cache: one slot per run id.  An entry remembers its value, the      *)
(* number of the submission that wrote it, the number of CAPTCHA prompts   *)
(* published when it was written, its age and its time-to-live.            *)
(***************************************************************************)
NoEntry == [val |-> <<>>, sid |-> 0, np |-> 0, age |-> 0, ttl |-> 0]

Expired(e) == e.age >= e.ttl

CacheSet(c, k, v, s, n, t) ==
  [c EXCEPT ![k] = [val |-> v, sid |-> s, np |-> n, age |-> 0, ttl |-> t]]

\* cache.get(key): the entry, or nothing when absent or expired.
CacheGet(c, k) == IF c[k] # NoEntry /\ ~Expired(c[k]) THEN c[k] ELSE NoEntry

CacheDelete(c, k) == [c EXCEPT ![k] = NoEntry]

Min(a, b) == IF a < b THEN a ELSE b

\* How long a browser operation may take.
Durations == {DEFAULT_WAIT, CAPTCHA_TTL}

(***************************************************************************)
(* The ledger of a run: how often each message was published, and the      *)
(* message published last.                                                 *)
(***************************************************************************)
NoStatuses == [bag |-> EmptyBag, last |-> ""]

create_status(st, m) == [bag |-> st.bag (+) SetToBag({m}), last |-> m]

Count(st, m) == CopiesIn(m, st.bag)

NumPrompts(st) == Count(st, MSG_PROMPT1) + Count(st, MSG_PROMPT2)

(***************************************************************************)
(* parse_address, lines 80-101.  An address is a sequence of segments, the *)
(* texts between its commas: a label and the text that follows it.  A      *)
(* pattern matches the first segment that carries its label followed by a  *)
(* text its group accepts: [^,\.]+ takes any text but the empty one,       *)
(* \d{6} takes six digits.  re.IGNORECASE is left out: labels are written  *)
(* in one case.                                                            *)
(***************************************************************************)
MaxAddrLen == 2

Segments ==
  { [label |-> "Village:",       value |-> "Rampur"],
    [label |-> "Village:",       value |-> ""],
    [label |-> "Tehsil:",        value |-> "Huzur"],
    [label |-> "District:",      value |-> "Bhopal"],
    [label |-> "pin-",           value |-> "462001"],
    [label |-> "pin-",           value |-> "4620"],
    [label |-> "Madhya Pradesh", value |-> ""],
    [label |-> "India",          value |-> ""] }

RECURSIVE SeqsUpTo(_, _)
SeqsUpTo(S, n) ==
  IF n = 0 THEN {<<>>}
  ELSE LET shorter == SeqsUpTo(S, n - 1) IN
       shorter \cup {Append(a, x) : a \in shorter, x \in S}

AddrInputs == SeqsUpTo(Segments, MaxAddrLen)

\* The keys of `patterns`, in the order of the dict.
PatternKeys ==
  <<"Ward/Colony", "District", "Village", "Sub-Area/Road", "Tehsil/Locality", "PIN Code",
    "Landmark">>

\* The label the pattern of a key looks for.
PatternLabel(key) ==
  CASE key = "Ward/Colony"     -> "Ward Colony -"
    [] key = "District"        -> "Distirct:"
    [] key = "Village"         -> "Village:"
    [] key = "Sub-Area/Road"   -> "Sub-Area:"
    [] key = "Tehsil/Locality" -> "Tehsil:"
    [] key = "PIN Code"        -> "pin-"
    [] key = "Landmark"        -> "m from"

SixDigits == {"462001"}

\* The group of the pattern of a key accepts the text v.
GroupAccepts(key, v) == IF key = "PIN Code" THEN v \in SixDigits ELSE v # ""

NoMatch == [found |-> FALSE, group |-> ""]

\* re.search(pattern, addr): the first match and its group 1, or None.
RECURSIVE re_search(_, _)
re_search(key, a) ==
  IF a = <<>> THEN NoMatch
  ELSE IF Head(a).label = PatternLabel(key) /\ GroupAccepts(key, Head(a).value)
    THEN [found |-> TRUE, group |-> Head(a).value]
    ELSE re_search(key, Tail(a))

\* "text" in addr
Contains(a, text) == \E k \in 1..Len(a) : a[k].label = text

EmptyDict == [k \in {} |-> ""]

\* d[k] = v
DictSet(d, k, v) == [x \in DOMAIN d \cup {k} |-> IF x = k THEN v ELSE d[x]]

\* PatternLoop without the else branch: a key is set only when its pattern matches.
RECURSIVE PatternLoop_NoElse(_, _, _)
PatternLoop_NoElse(d, keys, a) ==
  IF keys = <<>> THEN d
  ELSE LET match == re_search(Head(keys), a) IN
       PatternLoop_NoElse(IF match.found THEN DictSet(d, Head(keys), match.group) ELSE d,
                          Tail(keys), a)

\* Lines 92-97: for key, pattern in patterns.items().
RECURSIVE PatternLoop(_, _, _)
PatternLoop(d, keys, a) ==
  IF keys = <<>> THEN d
  ELSE LET match == re_search(Head(keys), a) IN
       PatternLoop(DictSet(d, Head(keys), IF match.found THEN match.group ELSE ""),
                   Tail(keys), a)

parse_address(a) ==
  LET d1 == PatternLoop(EmptyDict, PatternKeys, a)
      d2 == DictSet(d1, "State",
                    IF Contains(a, "Madhya Pradesh") THEN "Madhya Pradesh" ELSE "")
  IN  DictSet(d2, "Country", IF Contains(a, "India") THEN "India" ELSE "")

(***************************************************************************)
(* The property section, lines 456-487, and dict(zip(...)) of save_to_db,  *)
(* lines 179-183.  Labels and cell texts are taken from small sets; what   *)
(* str.lower, the test "address" in ..., and the commas of an address do   *)
(* to them is written out text by text.                                    *)
(***************************************************************************)
MaxFields == 3

Labels == {"Area", "District", "Property Address"}

CellTexts == {"", "Bhopal", "Village: Rampur, pin-462001"}

SectionNames == {"registration", "seller", "buyer", "property", "khasra"}

\* heading_100.lower()
lower(h) ==
  CASE h = "Area"             -> "area"
    [] h = "District"         -> "district"
    [] h = "Property Address" -> "property address"

\* "address" in s, for the labels and their lower-case forms
HasAddress(s) == s \in {"property address"}

\* Line 479 without .lower(): the test sees the label as written.
IsAddressHeading_CaseSensitive(h) == HasAddress(h)

\* Line 479: "address" in heading_100.lower()
IsAddressHeading(h) == HasAddress(lower(h))

\* The segments of a cell text, as parse_address reads them.
SegmentsOf(text) ==
  CASE text = ""       -> <<>>
    [] text = "Bhopal" -> <<[label |-> "", value |-> "Bhopal"]>>
    [] text = "Village: Rampur, pin-462001" ->
         <<[label |-> "Village:", value |-> "Rampur"],
           [label |-> "pin-", value |-> "462001"]>>

\* The keys of the dict parse_address returns, in the order they were set.
AddressKeys == PatternKeys \o <<"State", "Country">>

\* parsed_addr.items()
items(d) == [k \in 1..Len(AddressKeys) |-> <<AddressKeys[k], d[AddressKeys[k]]>>]

\* zip(a, b): the pairs up to the end of the shorter list.
zip(a, b) == [k \in 1..Min(Len(a), Len(b)) |-> <<a[k], b[k]>>]

\* Lines 478-484: the loop over zip(headings_4, data_texts_4).
RECURSIVE AugmentLoop(_, _)
AugmentLoop(final_data_texts_4, pairs) ==
  IF pairs = <<>> THEN final_data_texts_4
  ELSE LET heading_100 == Head(pairs)[1]
           data_val    == Head(pairs)[2]
       IN  AugmentLoop(
             IF IsAddressHeading(heading_100)
               THEN final_data_texts_4 \o items(parse_address(SegmentsOf(data_val)))
               ELSE Append(final_data_texts_4, <<heading_100, data_val>>),
             Tail(pairs))

\* Lines 486-487: [h for h, _ in ...] and [v for _, v in ...]
Firsts(pairs) == [k \in 1..Len(pairs) |-> pairs[k][1]]

Seconds(pairs) == [k \in 1..Len(pairs) |-> pairs[k][2]]

\* dict(pairs): a later pair with the same key replaces the value.
RECURSIVE dict(_, _)
dict(d, pairs) ==
  IF pairs = <<>> THEN d
  ELSE dict(DictSet(d, Head(pairs)[1], Head(pairs)[2]), Tail(pairs))

VARIABLES
  pc,               \* position of the trigger_scrape request
  request,          \* the request: its method
  date_from, date_too,  \* locals of trigger_scrape, read for the last time at line 206
  runs,             \* number of ScrapingRun rows; the latest run has this id
  new_run,          \* id of the run of the request, 0 before it is created
  statuses,         \* ledger of new_run
  outcome,          \* response of the request
  date_from_fmt, date_to_fmt,
  driver,           \* "unbound", "open" or "quit"
  quits,            \* calls of driver.quit()
  attempt, login_success,
  retry, captcha2_success,
  caller,           \* checkpoint that called _wait_for_captcha_value
  waited, got,      \* locals of _wait_for_captcha_value, reset on return
  captcha_value,
  cache,            \* the RelayValue slots
  nsub,             \* values written by get_status so far
  operatorGone,     \* the operator has stopped posting for good
  promptMark,       \* submissions posted before the latest CAPTCHA prompt
  lastSid,          \* submission returned by the latest successful await
  faults,           \* browser results other than the good one, so far
  sitePages, page, visited, pageFault,
  rowCount, i, failedRows, savedRows, shrunk, rowFaults,
  refreshLen,       \* len(data_elements_refresh) of the latest refresh
  records,          \* ScrapedRecord rows
  addr, parsed,     \* the argument and the result of parse_address
  epc,              \* position of the extraction of one section of a row
  section,          \* the section read
  headings, data_texts,  \* its labels and its values, as read from the page
  section_lists,    \* its entry of all_sections
  stored            \* its field of the ScrapedRecord

vars == <<pc, request, addr, parsed, date_from, date_too, runs, new_run, statuses, outcome,
          date_from_fmt, date_to_fmt,
          driver, quits, attempt, login_success, retry, captcha2_success,
          caller, waited, got, captcha_value, cache, nsub, operatorGone, promptMark, lastSid,
          faults, sitePages, page, visited, pageFault,
          rowCount, i, failedRows, savedRows, shrunk, rowFaults, refreshLen,
          records, epc, section, headings, data_texts, section_lists, stored>>

sessionVars == <<driver, quits>>
loginVars == <<attempt, login_success>>
filterVars == <<retry, captcha2_success>>
waitVars == <<caller, waited, got, captcha_value>>
intakeVars == <<nsub, operatorGone>>
siteVars == <<sitePages, page, visited, pageFault>>
rowVars == <<rowCount, i, failedRows, savedRows, shrunk, rowFaults, refreshLen>>
dateVars == <<date_from_fmt, date_to_fmt, date_from, date_too>>
addrVars == <<addr, parsed>>
extractVars == <<epc, section, headings, data_texts, section_lists, stored>>

\* d time units pass; ages are kept up to CAPTCHA_TTL.  Only the slot of the
\* run of the request is ever read: the age of the other slots is left out.
Aged(c, d) ==
  [r \in RunIds |->
     IF c[r] = NoEntry \/ r # new_run THEN c[r]
     ELSE [c[r] EXCEPT !.age = Min(@ + d, CAPTCHA_TTL)]]

\* A date local that holds nothing the code will read.
NoDate == [fmt |-> "unbound", y |-> 0, m |-> 0, d |-> 0, mw |-> 0, dw |-> 0]

NoRequest == [method |-> "none"]

\* The state before the request, but for the argument of parse_address.
RunInit ==
  /\ pc = "idle"
  /\ request = NoRequest
  /\ date_from = NoDate
  /\ date_too = NoDate
  /\ runs = 0
  /\ new_run = 0
  /\ statuses = NoStatuses
  /\ outcome = "none"
  /\ date_from_fmt = NoDate
  /\ date_to_fmt = NoDate
  /\ driver = "unbound"
  /\ quits = 0
  /\ attempt = 0
  /\ login_success = FALSE
  /\ retry = 0
  /\ captcha2_success = FALSE
  /\ caller = "none"
  /\ waited = 0
  /\ got = NoEntry
  /\ captcha_value = None
  /\ cache = [r \in RunIds |-> NoEntry]
  /\ nsub = 0
  /\ operatorGone = FALSE
  /\ promptMark = 0
  /\ lastSid = 0
  /\ faults = 0
  /\ sitePages = 0
  /\ page = 1
  /\ visited = <<>>
  /\ pageFault = FALSE
  /\ rowCount = 0
  /\ i = 0
  /\ failedRows = 0
  /\ savedRows = 0
  /\ shrunk = FALSE
  /\ rowFaults = 0
  /\ refreshLen = 0
  /\ records = 0

\* No section is being extracted.
ExtractIdle ==
  /\ epc = "idle"
  /\ section = "none"
  /\ headings = <<>>
  /\ data_texts = <<>>
  /\ section_lists = <<<<>>, <<>>>>
  /\ stored = EmptyDict

Init ==
  /\ RunInit
  /\ addr = <<>>
  /\ parsed = EmptyDict
  /\ ExtractIdle

\* A browser result: the good one is free, any other uses the fault budget.
Result(o, good) ==
  /\ (o # good => faults < MaxFaults)
  /\ faults' = faults + (IF o = good THEN 0 ELSE 1)


(***************************************************************************)
(* get_status: the intake.  A non-empty text is written to the slot of the *)
(* latest run, with the fixed time-to-live.                                *)
(***************************************************************************)
\* IntakeWrite with a time-to-live ten times as long.
IntakeWrite_LongTtl(c, k, v, s, n) == CacheSet(c, k, v, s, n, CAPTCHA_TTL * 10)

IntakeWrite(c, k, v, s, n) == CacheSet(c, k, v, s, n, CAPTCHA_TTL)

\* The positions up to the end of the second checkpoint.  The slots are read
\* only there: what is posted, and how long the browser takes, is left out
\* once the results are reached.
CheckpointPcs == {"open", "lang", "login_loop", "poll", "w_del", "after_wait",
                  "nav", "filters_loop"}

GetStatus ==
  /\ pc \in CheckpointPcs
  /\ ~operatorGone
  /\ nsub < MaxSubmissions
  /\ \E text \in Texts :
       LET captcha == Strip(text) IN
       IF captcha # <<>> /\ runs > 0
         THEN /\ cache' = IntakeWrite(cache, runs, captcha, nsub + 1, NumPrompts(statuses))
              /\ nsub' = nsub + 1
         ELSE UNCHANGED <<cache, nsub>>
  /\ UNCHANGED <<operatorGone, pc, request, addrVars, extractVars, runs, new_run, statuses, outcome, dateVars, sessionVars,
                 loginVars, filterVars, waitVars, lastSid, promptMark, faults, siteVars,
                 rowVars, records>>

\* The operator walks away: nothing is posted from here on, and every await
\* times out.  An await that times out while the operator is still there is
\* counted in `faults`.
OperatorLeaves ==
  /\ pc \in CheckpointPcs
  /\ ~operatorGone
  /\ operatorGone' = TRUE
  /\ UNCHANGED <<pc, request, addrVars, extractVars, runs, new_run, statuses, outcome, dateVars, sessionVars,
                 loginVars, filterVars, waitVars, cache, nsub, lastSid, promptMark,
                 faults, siteVars, rowVars, records>>

(***************************************************************************)
(* Time passes while the browser works.                                    *)
(***************************************************************************)
BrowserPcs == CheckpointPcs \ {"poll", "w_del"}

BrowserTime ==
  /\ pc \in BrowserPcs
  /\ \E r \in RunIds : Aged(cache, 1)[r] # cache[r]
  /\ \E d \in Durations : cache' = Aged(cache, d)
  /\ UNCHANGED <<pc, request, addrVars, extractVars, runs, new_run, statuses, outcome, dateVars, sessionVars,
                 loginVars, filterVars, waitVars, intakeVars, lastSid, promptMark, faults,
                 siteVars, rowVars, records>>

(***************************************************************************)
(* trigger_scrape, lines 190-210: the run is created, then the method and  *)
(* the dates are looked at.                                                *)
(***************************************************************************)
TriggerScrape ==
  /\ pc = "idle"
  /\ runs < MaxRuns
  /\ runs' = runs + 1
  /\ new_run' = runs + 1
  /\ \E method \in {"GET", "POST"}, df \in DateInputs, dt \in DateInputs :
       /\ request' = [method |-> method]
       /\ IF method # "POST"
            THEN /\ outcome' = "form"
                 /\ pc' = "done"
                 /\ UNCHANGED <<statuses, dateVars>>
            ELSE /\ date_too' = dt
                 /\ date_from' = df
                 /\ IF StrptimeOk(df) /\ StrptimeOk(dt)
                      THEN /\ date_from_fmt' = Strftime(df)
                           /\ date_to_fmt' = Strftime(dt)
                           /\ pc' = "open"
                           /\ UNCHANGED <<statuses, outcome>>
                      ELSE /\ statuses' = create_status(statuses, MSG_INVALID_DATE)
                           /\ outcome' = "invalid_input"
                           /\ pc' = "done"
                           /\ UNCHANGED <<date_from_fmt, date_to_fmt>>
  /\ UNCHANGED <<addrVars, extractVars, sessionVars, loginVars, filterVars, waitVars, cache,
                 intakeVars, lastSid, promptMark, faults, siteVars, rowVars, records>>

\* Another request to trigger_scrape while this one is at work: a display of
\* the form, or a submission with an invalid date.  Line 194 creates its run
\* before the method and the dates are looked at; it publishes at most the
\* invalid-date status, in the ledger of that run, and returns.  Once the
\* run of this request is not the latest any more, one more request changes
\* nothing this request can see, and is left out.
OtherRequest ==
  /\ pc \in CheckpointPcs
  /\ runs < MaxRuns
  /\ runs = new_run
  /\ \E kind \in {"form", "invalid_input"} : runs' = runs + 1
  /\ UNCHANGED <<pc, request, addrVars, extractVars, new_run, statuses, outcome, dateVars,
                 sessionVars, loginVars, filterVars, waitVars, cache, intakeVars, lastSid,
                 promptMark, faults, siteVars, rowVars, records>>

(***************************************************************************)
(* The ways out of the outer try of trigger_scrape.                        *)
(***************************************************************************)
\* An early return that quits the driver itself; the finally clause quits again.
ReturnAfterQuit(result) ==
  /\ outcome' = result
  /\ driver' = "quit"
  /\ quits' = quits + 2
  /\ pc' = "done"

\* except Exception: the error status and response; finally quits the driver.
ErrorExit ==
  /\ statuses' = create_status(statuses, MSG_ERROR)
  /\ outcome' = "error"
  /\ driver' = "quit"
  /\ quits' = quits + 1
  /\ pc' = "done"

(***************************************************************************)
(* Lines 213-215: the driver is created and the site is opened.            *)
(***************************************************************************)
DriverOpen ==
  /\ pc = "open"
  /\ \E o \in {"ok", "create_raises", "get_raises"} :
       /\ Result(o, "ok")
       /\ CASE o = "ok" ->
                 /\ driver' = "open"
                 /\ pc' = "lang"
                 /\ UNCHANGED <<statuses, outcome, quits>>
            [] o = "create_raises" ->
                 \* driver is not bound: the finally clause raises in its turn
                 /\ statuses' = create_status(statuses, MSG_ERROR)
                 /\ outcome' = "unhandled"
                 /\ pc' = "done"
                 /\ UNCHANGED <<driver, quits>>
            [] o = "get_raises" -> ErrorExit
  /\ date_from' = NoDate
  /\ date_too' = NoDate
  /\ UNCHANGED <<request, addrVars, extractVars, runs, new_run, date_from_fmt, date_to_fmt, loginVars,
                 filterVars, waitVars, cache, intakeVars, lastSid, promptMark, siteVars, rowVars, records>>

\* Lines 217-230: the language switch is best effort; the login loop starts.
LanguageSwitch ==
  /\ pc = "lang"
  /\ statuses' = create_status(statuses, MSG_FILLING_LOGIN)
  /\ attempt' = 0
  /\ login_success' = FALSE
  /\ pc' = "login_loop"
  /\ UNCHANGED <<request, addrVars, extractVars, runs, new_run, outcome, dateVars, sessionVars, filterVars,
                 waitVars, cache, intakeVars, lastSid, promptMark, faults, siteVars, rowVars,
                 records>>

(***************************************************************************)
(* Login loop, lines 231-285.                                              *)
(***************************************************************************)
\* LoginAttempt where an error of the browser is not caught inside the loop.
LoginAttempt_Propagates ==
  /\ pc = "login_loop"
  /\ attempt < max_attempts
  /\ \E o \in {"prompt", "raises"} :
       /\ Result(o, "prompt")
       /\ IF o = "prompt"
            THEN /\ statuses' = create_status(statuses, MSG_PROMPT1)
                 /\ promptMark' = nsub
                 /\ caller' = "login"
                 /\ waited' = 0
                 /\ pc' = "poll"
                 /\ UNCHANGED <<attempt, outcome, sessionVars>>
            ELSE /\ ErrorExit
                 /\ UNCHANGED <<attempt, promptMark, caller, waited>>
  /\ UNCHANGED <<request, addrVars, extractVars, runs, new_run, dateVars, login_success,
                 filterVars, got, captcha_value, cache, intakeVars, lastSid,
                 siteVars, rowVars, records>>

\* LoginAttempt with one turn more than max_attempts.
LoginAttempt_OneMore ==
  /\ pc = "login_loop"
  /\ attempt <= max_attempts
  /\ \E o \in {"prompt", "raises"} :
       /\ Result(o, "prompt")
       /\ IF o = "prompt"
            THEN /\ statuses' = create_status(statuses, MSG_PROMPT1)
                 /\ promptMark' = nsub
                 /\ caller' = "login"
                 /\ waited' = 0
                 /\ pc' = "poll"
                 /\ UNCHANGED attempt
            ELSE /\ attempt' = attempt + 1
                 /\ UNCHANGED <<statuses, promptMark, caller, waited, pc>>
  /\ UNCHANGED <<request, addrVars, extractVars, runs, new_run, outcome, dateVars, sessionVars, login_success,
                 filterVars, got, captcha_value, cache, intakeVars, lastSid,
                 siteVars, rowVars, records>>

\* Lines 231-255: up to the CAPTCHA #1 prompt and the call of the relay.
LoginAttempt ==
  /\ pc = "login_loop"
  /\ attempt < max_attempts
  /\ \E o \in {"prompt", "raises"} :
       /\ Result(o, "prompt")
       /\ IF o = "prompt"
            THEN /\ statuses' = create_status(statuses, MSG_PROMPT1)
                 /\ promptMark' = nsub
                 /\ caller' = "login"
                 /\ waited' = 0
                 /\ pc' = "poll"
                 /\ UNCHANGED attempt
            ELSE /\ attempt' = attempt + 1
                 /\ UNCHANGED <<statuses, promptMark, caller, waited, pc>>
  /\ UNCHANGED <<request, addrVars, extractVars, runs, new_run, outcome, dateVars, sessionVars, login_success,
                 filterVars, got, captcha_value, cache, intakeVars, lastSid,
                 siteVars, rowVars, records>>

\* LoginAfterWait that awaits again, on the same prompt, after a timeout.
LoginAfterWait_AwaitsAgain ==
  /\ pc = "after_wait"
  /\ caller = "login"
  /\ IF captcha_value = None
       THEN /\ statuses' = create_status(statuses, MSG_TIMEOUT1)
            /\ attempt' = attempt + 1
            /\ pc' = IF attempt + 1 < max_attempts THEN "poll" ELSE "login_loop"
            /\ UNCHANGED <<login_success, faults>>
       ELSE \E o \in {"logged_in", "raises", "same_url"} :
              /\ Result(o, "logged_in")
              /\ IF o = "logged_in"
                   THEN /\ login_success' = TRUE
                        /\ statuses' = create_status(statuses, MSG_SOLVED1)
                        /\ pc' = "nav"
                        /\ UNCHANGED attempt
                   ELSE /\ attempt' = attempt + 1
                        /\ pc' = "login_loop"
                        /\ UNCHANGED <<login_success, statuses>>
  /\ UNCHANGED <<request, addrVars, extractVars, runs, new_run, outcome, dateVars, sessionVars, filterVars,
                 waitVars, cache, intakeVars, lastSid, promptMark, siteVars, rowVars, records>>

\* Lines 256-285: after the relay returned.
LoginAfterWait ==
  /\ pc = "after_wait"
  /\ caller = "login"
  /\ IF captcha_value = None
       THEN /\ statuses' = create_status(statuses, MSG_TIMEOUT1)
            /\ attempt' = attempt + 1
            /\ pc' = "login_loop"
            /\ UNCHANGED <<login_success, faults>>
       ELSE \E o \in {"logged_in", "raises", "same_url"} :
              /\ Result(o, "logged_in")
              /\ IF o = "logged_in"
                   THEN /\ login_success' = TRUE
                        /\ statuses' = create_status(statuses, MSG_SOLVED1)
                        /\ pc' = "nav"
                        /\ UNCHANGED attempt
                   ELSE /\ attempt' = attempt + 1
                        /\ pc' = "login_loop"
                        /\ UNCHANGED <<login_success, statuses>>
  /\ UNCHANGED <<request, addrVars, extractVars, runs, new_run, outcome, dateVars, sessionVars, filterVars,
                 waitVars, cache, intakeVars, lastSid, promptMark, siteVars, rowVars, records>>

\* LoginFailed without the check of login_success: the run goes on.
LoginFailed_GoesOn ==
  /\ pc = "login_loop"
  /\ attempt = max_attempts
  /\ pc' = "nav"
  /\ UNCHANGED <<request, addrVars, extractVars, runs, new_run, statuses, outcome, dateVars, sessionVars,
                 loginVars, filterVars, waitVars, cache, intakeVars, lastSid,
                 promptMark, faults, siteVars, rowVars, records>>

\* Lines 287-291 and 545-547: the login budget is used up.
LoginFailed ==
  /\ pc = "login_loop"
  /\ attempt = max_attempts
  /\ ~login_success
  /\ statuses' = create_status(statuses, MSG_LOGIN_FAILED)
  /\ ReturnAfterQuit("login_exhausted")
  /\ UNCHANGED <<request, addrVars, extractVars, runs, new_run, dateVars, loginVars, filterVars, waitVars, cache,
                 intakeVars, lastSid, promptMark, faults, siteVars, rowVars, records>>

(***************************************************************************)
(* _wait_for_captcha_value, lines 155-169.                                 *)
(***************************************************************************)
\* WaitPoll with the loop test waited <= timeout.
WaitPoll_OnePollMore ==
  /\ pc = "poll"
  /\ IF waited <= CAPTCHA_WAIT_SECONDS
       THEN LET value == CacheGet(cache, new_run) IN
            IF value # NoEntry
              THEN /\ got' = value
                   /\ pc' = "w_del"
                   /\ UNCHANGED <<waited, cache, captcha_value>>
              ELSE /\ cache' = Aged(cache, poll_interval)
                   /\ waited' = waited + poll_interval
                   /\ UNCHANGED <<got, pc, captcha_value>>
       ELSE /\ captcha_value' = None
            /\ waited' = 0
            /\ pc' = "after_wait"
            /\ UNCHANGED <<got, cache>>
  /\ IF waited <= CAPTCHA_WAIT_SECONDS \/ operatorGone
       THEN UNCHANGED faults
       ELSE faults < MaxFaults /\ faults' = faults + 1
  /\ UNCHANGED <<request, addrVars, extractVars, runs, new_run, statuses, outcome, dateVars, sessionVars,
                 loginVars, filterVars, caller, intakeVars, lastSid, promptMark,
                 siteVars, rowVars, records>>

\* WaitPoll that clears the slot when it gives up.
WaitPoll_ClearsOnTimeout ==
  /\ pc = "poll"
  /\ IF waited < CAPTCHA_WAIT_SECONDS
       THEN LET value == CacheGet(cache, new_run) IN
            IF value # NoEntry
              THEN /\ got' = value
                   /\ pc' = "w_del"
                   /\ UNCHANGED <<waited, cache, captcha_value>>
              ELSE /\ cache' = Aged(cache, poll_interval)
                   /\ waited' = waited + poll_interval
                   /\ UNCHANGED <<got, pc, captcha_value>>
       ELSE /\ captcha_value' = None
            /\ waited' = 0
            /\ pc' = "after_wait"
            /\ cache' = CacheDelete(cache, new_run)
            /\ UNCHANGED got
  /\ IF waited < CAPTCHA_WAIT_SECONDS \/ operatorGone
       THEN UNCHANGED faults
       ELSE faults < MaxFaults /\ faults' = faults + 1
  /\ UNCHANGED <<request, addrVars, extractVars, runs, new_run, statuses, outcome, dateVars, sessionVars,
                 loginVars, filterVars, caller, intakeVars, lastSid, promptMark,
                 siteVars, rowVars, records>>

\* One turn of the loop up to cache.delete, or the return of None.
WaitPoll ==
  /\ pc = "poll"
  /\ IF waited < CAPTCHA_WAIT_SECONDS
       THEN LET value == CacheGet(cache, new_run) IN
            IF value # NoEntry
              THEN /\ got' = value
                   /\ pc' = "w_del"
                   /\ UNCHANGED <<waited, cache, captcha_value>>
              ELSE /\ cache' = Aged(cache, poll_interval)
                   /\ waited' = waited + poll_interval
                   /\ UNCHANGED <<got, pc, captcha_value>>
       ELSE /\ captcha_value' = None
            /\ waited' = 0
            /\ pc' = "after_wait"
            /\ UNCHANGED <<got, cache>>
  /\ IF waited < CAPTCHA_WAIT_SECONDS \/ operatorGone
       THEN UNCHANGED faults
       ELSE faults < MaxFaults /\ faults' = faults + 1
  /\ UNCHANGED <<request, addrVars, extractVars, runs, new_run, statuses, outcome, dateVars, sessionVars,
                 loginVars, filterVars, caller, intakeVars, lastSid, promptMark,
                 siteVars, rowVars, records>>

\* WaitDelete without cache.delete.
WaitDelete_NoClear ==
  /\ pc = "w_del"
  /\ captcha_value' = got.val
  /\ lastSid' = got.sid
  /\ got' = NoEntry
  /\ waited' = 0
  /\ pc' = "after_wait"
  /\ UNCHANGED <<request, addrVars, extractVars, runs, new_run, statuses, outcome, dateVars, sessionVars,
                 loginVars, filterVars, caller, promptMark, intakeVars, faults,
                 siteVars, rowVars, records, cache>>

\* Lines 165-166: the slot is cleared and the value read before is returned.
WaitDelete ==
  /\ pc = "w_del"
  /\ cache' = CacheDelete(cache, new_run)
  /\ captcha_value' = got.val
  /\ lastSid' = got.sid
  /\ got' = NoEntry
  /\ waited' = 0
  /\ pc' = "after_wait"
  /\ UNCHANGED <<request, addrVars, extractVars, runs, new_run, statuses, outcome, dateVars, sessionVars,
                 loginVars, filterVars, caller, promptMark, intakeVars, faults,
                 siteVars, rowVars, records>>


(***************************************************************************)
(* Lines 293-305: to the search section.                                   *)
(***************************************************************************)
Navigate ==
  /\ pc = "nav"
  /\ \E o \in {"ok", "raises", "missing"} :
       /\ Result(o, "ok")
       /\ CASE o = "ok" ->
                 /\ retry' = 0
                 /\ captcha2_success' = FALSE
                 /\ pc' = "filters_loop"
                 /\ UNCHANGED <<statuses, outcome, sessionVars>>
            [] o = "missing" ->
                 /\ ReturnAfterQuit("nav_missing")
                 /\ UNCHANGED <<statuses, filterVars>>
            [] o = "raises" ->
                 /\ ErrorExit
                 /\ UNCHANGED filterVars
  /\ UNCHANGED <<request, addrVars, extractVars, runs, new_run, dateVars, loginVars, waitVars, cache, intakeVars,
                 lastSid, promptMark, siteVars, rowVars, records>>

(***************************************************************************)
(* Filters loop, lines 309-392.                                            *)
(***************************************************************************)
\* Lines 309-363: up to the CAPTCHA #2 prompt and the call of the relay.
FiltersAttempt ==
  /\ pc = "filters_loop"
  /\ retry < max_attempts
  /\ \E o \in {"prompt", "raises_early", "missing", "raises_late"} :
       /\ Result(o, "prompt")
       /\ CASE o = "prompt" ->
                 /\ statuses' = create_status(create_status(statuses, MSG_FILLING_FILTERS),
                                              MSG_PROMPT2)
                 /\ promptMark' = nsub
                 /\ caller' = "filters"
                 /\ waited' = 0
                 /\ pc' = "poll"
                 /\ UNCHANGED <<retry, outcome, sessionVars>>
            [] o = "raises_early" ->
                 /\ retry' = retry + 1
                 /\ UNCHANGED <<statuses, promptMark, caller, waited, pc, outcome,
                                sessionVars>>
            [] o = "missing" ->
                 /\ ReturnAfterQuit("other_missing")
                 /\ UNCHANGED <<statuses, promptMark, caller, waited, retry>>
            [] o = "raises_late" ->
                 /\ statuses' = create_status(statuses, MSG_FILLING_FILTERS)
                 /\ retry' = retry + 1
                 /\ UNCHANGED <<promptMark, caller, waited, pc, outcome, sessionVars>>
  /\ UNCHANGED <<request, addrVars, extractVars, runs, new_run, dateVars, loginVars, captcha2_success, got,
                 captcha_value, cache, intakeVars, lastSid, siteVars, rowVars,
                 records>>

\* Lines 364-392: after the relay returned.
FiltersAfterWait ==
  /\ pc = "after_wait"
  /\ caller = "filters"
  /\ IF captcha_value = None
       THEN /\ statuses' = create_status(statuses, MSG_TIMEOUT2)
            /\ retry' = retry + 1
            /\ pc' = "filters_loop"
            /\ UNCHANGED <<captcha2_success, faults>>
       ELSE \E o \in {"found", "raises"} :
              /\ Result(o, "found")
              /\ IF o = "found"
                   THEN /\ captcha2_success' = TRUE
                        /\ statuses' = create_status(statuses, MSG_SOLVED2)
                        /\ pc' = "results"
                        /\ UNCHANGED retry
                   ELSE /\ retry' = retry + 1
                        /\ pc' = "filters_loop"
                        /\ UNCHANGED <<captcha2_success, statuses>>
  /\ UNCHANGED <<request, addrVars, extractVars, runs, new_run, outcome, dateVars, sessionVars, loginVars,
                 waitVars, cache, intakeVars, lastSid, promptMark, siteVars, rowVars, records>>

\* FiltersFailed without the test of lines 394-398: the run goes on to the results.
FiltersFailed_GoesOn ==
  /\ pc = "filters_loop"
  /\ retry = max_attempts
  /\ pc' = "results"
  /\ UNCHANGED <<request, addrVars, extractVars, runs, new_run, statuses, outcome, dateVars,
                 sessionVars, loginVars, filterVars, waitVars, cache, intakeVars, lastSid,
                 promptMark, faults, siteVars, rowVars, records>>

\* Lines 394-398 and 545-547: the filters budget is used up.
FiltersFailed ==
  /\ pc = "filters_loop"
  /\ retry = max_attempts
  /\ ~captcha2_success
  /\ statuses' = create_status(statuses, MSG_CAPTCHA2_FAILED)
  /\ ReturnAfterQuit("filters_exhausted")
  /\ UNCHANGED <<request, addrVars, extractVars, runs, new_run, dateVars, loginVars, filterVars, waitVars, cache,
                 intakeVars, lastSid, promptMark, faults, siteVars, rowVars, records>>

(***************************************************************************)
(* Result pages, lines 400-539.                                            *)
(***************************************************************************)
\* Lines 400-403: wait for the first results.  The search has some number of
\* result pages; only the last one shows its next control disabled.
ResultsWait ==
  /\ pc = "results"
  /\ \E o \in {"ok", "raises"} :
       /\ Result(o, "ok")
       /\ IF o = "ok"
            THEN /\ \E n \in 1..MaxPages : sitePages' = n
                 /\ pc' = "page_start"
                 /\ UNCHANGED <<statuses, outcome, sessionVars>>
            ELSE /\ ErrorExit
                 /\ UNCHANGED sitePages
  \* the counters of the two loops and the answer are not read from here on
  /\ attempt' = 0
  /\ retry' = 0
  /\ captcha_value' = None
  /\ lastSid' = 0
  /\ promptMark' = 0
  /\ UNCHANGED <<request, addrVars, extractVars, runs, new_run, dateVars, login_success, captcha2_success,
                 caller, waited, got, cache, intakeVars, page, visited, pageFault,
                 rowVars, records>>

\* Lines 405-410: the rows of the page are listed and the row loop starts.
PageStart ==
  /\ pc = "page_start"
  /\ \E o \in {"ok", "raises"} :
       /\ Result(o, "ok")
       /\ IF o = "ok"
            THEN /\ \E k \in 1..MaxRows : rowCount' = k
                 /\ i' = 0
                 /\ failedRows' = 0
                 /\ savedRows' = 0
                 /\ shrunk' = FALSE
                 /\ visited' = Append(visited, page)
                 /\ pc' = "rows"
                 /\ UNCHANGED <<statuses, outcome, sessionVars>>
            ELSE /\ ErrorExit
                 /\ UNCHANGED <<rowCount, i, failedRows, savedRows, shrunk, visited>>
  /\ UNCHANGED <<request, addrVars, extractVars, runs, new_run, dateVars, loginVars, filterVars, waitVars, cache,
                 intakeVars, lastSid, promptMark, sitePages, page, pageFault, rowFaults,
                 refreshLen, records>>

\* save_to_db, lines 172-187: the record is stored whole, or the error is raised.
save_to_db(n, ok) == IF ok THEN n + 1 ELSE n

\* RowStep where an error of save_to_db leaves the row loop: the run fails.
RowStep_Propagates ==
  /\ pc = "rows"
  /\ i < rowCount
  /\ \E o \in {"saved", "refresh_raises", "open_raises", "extract_raises", "save_raises"},
        n \in (0..i) \cup {rowCount} :
       /\ Result(o, "saved")
       /\ rowFaults' = rowFaults + (IF o = "saved" THEN 0 ELSE 1)
       /\ refreshLen' = IF o = "refresh_raises" THEN refreshLen ELSE n
       /\ o = "refresh_raises" => n = 0
       /\ CASE o # "refresh_raises" /\ i >= n ->
                 /\ o = "saved"
                 /\ shrunk' = TRUE
                 /\ pc' = "paginate"
                 /\ UNCHANGED <<i, failedRows, savedRows, statuses, records, outcome,
                                sessionVars>>
            [] o = "save_raises" /\ i < n ->
                 /\ ErrorExit
                 /\ UNCHANGED <<i, failedRows, savedRows, records, shrunk>>
            [] OTHER ->
                 /\ statuses' = IF o \in {"saved", "extract_raises"}
                                  THEN create_status(statuses, FetchingMsg(i))
                                  ELSE statuses
                 /\ records' = IF o = "saved" THEN save_to_db(records, TRUE) ELSE records
                 /\ savedRows' = savedRows + (records' - records)
                 /\ failedRows' = failedRows + (IF o = "saved" THEN 0 ELSE 1)
                 /\ i' = i + 1
                 /\ pc' = IF i + 1 < rowCount THEN "rows" ELSE "paginate"
                 /\ UNCHANGED <<shrunk, outcome, sessionVars>>
  /\ UNCHANGED <<request, addrVars, extractVars, runs, new_run, dateVars, loginVars,
                 filterVars, waitVars, cache, intakeVars, lastSid, promptMark, siteVars,
                 rowCount>>

\* RowStep without the test of i against the refreshed count.
RowStep_NoBoundsCheck ==
  /\ pc = "rows"
  /\ i < rowCount
  /\ \E o \in {"saved", "refresh_raises", "open_raises", "extract_raises", "save_raises"},
        n \in (0..i) \cup {rowCount} :
       /\ Result(o, "saved")
       /\ rowFaults' = rowFaults + (IF o = "saved" THEN 0 ELSE 1)
       /\ refreshLen' = IF o = "refresh_raises" THEN refreshLen ELSE n
       /\ o = "refresh_raises" => n = 0
       /\ IF FALSE
            THEN /\ o = "saved"
                 /\ shrunk' = TRUE
                 /\ pc' = "paginate"
                 /\ UNCHANGED <<i, failedRows, savedRows, statuses, records>>
            ELSE /\ statuses' = IF o \in {"saved", "extract_raises", "save_raises"}
                                  THEN create_status(statuses, FetchingMsg(i))
                                  ELSE statuses
                 /\ records' = IF o \in {"saved", "save_raises"}
                                 THEN save_to_db(records, o = "saved")
                                 ELSE records
                 /\ savedRows' = savedRows + (records' - records)
                 /\ failedRows' = failedRows + (IF o = "saved" THEN 0 ELSE 1)
                 /\ i' = i + 1
                 /\ pc' = IF i + 1 < rowCount THEN "rows" ELSE "paginate"
                 /\ UNCHANGED shrunk
  /\ UNCHANGED <<request, addrVars, extractVars, runs, new_run, outcome, dateVars, sessionVars, loginVars,
                 filterVars, waitVars, cache, intakeVars, lastSid, promptMark, siteVars,
                 rowCount>>

\* Lines 410-520: one turn of the row loop.  n is the length of the list the
\* refresh returns: i or less, or more than i; the code treats every length above
\* i alike, and the list is then given the length it had at the start of the page.
RowStep ==
  /\ pc = "rows"
  /\ i < rowCount
  /\ \E o \in {"saved", "refresh_raises", "open_raises", "extract_raises", "save_raises"},
        n \in (0..i) \cup {rowCount} :
       /\ Result(o, "saved")
       /\ rowFaults' = rowFaults + (IF o = "saved" THEN 0 ELSE 1)
       /\ refreshLen' = IF o = "refresh_raises" THEN refreshLen ELSE n
       /\ o = "refresh_raises" => n = 0
       /\ IF o # "refresh_raises" /\ i >= n
            THEN \* i >= len(data_elements_refresh): break
                 /\ o = "saved"
                 /\ shrunk' = TRUE
                 /\ pc' = "paginate"
                 /\ UNCHANGED <<i, failedRows, savedRows, statuses, records>>
            ELSE /\ statuses' = IF o \in {"saved", "extract_raises", "save_raises"}
                                  THEN create_status(statuses, FetchingMsg(i))
                                  ELSE statuses
                 /\ records' = IF o \in {"saved", "save_raises"}
                                 THEN save_to_db(records, o = "saved")
                                 ELSE records
                 /\ savedRows' = savedRows + (records' - records)
                 /\ failedRows' = failedRows + (IF o = "saved" THEN 0 ELSE 1)
                 /\ i' = i + 1
                 /\ pc' = IF i + 1 < rowCount THEN "rows" ELSE "paginate"
                 /\ UNCHANGED shrunk
  /\ UNCHANGED <<request, addrVars, extractVars, runs, new_run, outcome, dateVars, sessionVars, loginVars,
                 filterVars, waitVars, cache, intakeVars, lastSid, promptMark, siteVars,
                 rowCount>>

\* Paginate with the test of the disabled indicator inverted.
Paginate_Inverted ==
  /\ pc = "paginate"
  /\ \E o \in {"ok", "find_raises", "wait_raises"} :
       /\ Result(o, "ok")
       /\ IF o = "find_raises"
            THEN /\ pageFault' = TRUE
                 /\ pc' = "finish"
                 /\ UNCHANGED page
            ELSE IF page # sitePages
              THEN /\ o = "ok"
                   /\ pc' = "finish"
                   /\ UNCHANGED <<page, pageFault>>
              ELSE /\ page' = page + 1
                   /\ IF o = "ok"
                        THEN /\ pc' = "page_start"
                             /\ UNCHANGED pageFault
                        ELSE /\ pageFault' = TRUE
                             /\ pc' = "finish"
  /\ UNCHANGED <<request, addrVars, extractVars, runs, new_run, statuses, outcome, dateVars, sessionVars,
                 loginVars, filterVars, waitVars, cache, intakeVars, lastSid, promptMark,
                 sitePages, visited, rowCount, i, failedRows, savedRows, shrunk,
                 rowFaults, records>>
  /\ refreshLen' = 0   \* the row loop is over: the list is fetched anew before its next use

\* Paginate where an error of the browser is not caught at the next control.
Paginate_Propagates ==
  /\ pc = "paginate"
  /\ \E o \in {"ok", "find_raises", "wait_raises"} :
       /\ Result(o, "ok")
       /\ IF o = "find_raises"
            THEN /\ ErrorExit
                 /\ UNCHANGED <<page, pageFault>>
            ELSE IF page = sitePages
              THEN /\ o = "ok"
                   /\ pc' = "finish"
                   /\ UNCHANGED <<page, pageFault, statuses, outcome, sessionVars>>
              ELSE /\ page' = page + 1
                   /\ IF o = "ok"
                        THEN /\ pc' = "page_start"
                             /\ UNCHANGED <<pageFault, statuses, outcome, sessionVars>>
                        ELSE /\ ErrorExit
                             /\ UNCHANGED pageFault
  /\ UNCHANGED <<request, addrVars, extractVars, runs, new_run, dateVars,
                 loginVars, filterVars, waitVars, cache, intakeVars, lastSid, promptMark,
                 sitePages, visited, rowCount, i, failedRows, savedRows, shrunk,
                 rowFaults, records>>
  /\ refreshLen' = 0   \* the row loop is over: the list is fetched anew before its next use

\* Lines 522-533: the next control.
Paginate ==
  /\ pc = "paginate"
  /\ \E o \in {"ok", "find_raises", "wait_raises"} :
       /\ Result(o, "ok")
       /\ IF o = "find_raises"
            THEN /\ pageFault' = TRUE
                 /\ pc' = "finish"
                 /\ UNCHANGED page
            ELSE IF page = sitePages
              THEN \* "disabled" in classes: break
                   /\ o = "ok"
                   /\ pc' = "finish"
                   /\ UNCHANGED <<page, pageFault>>
              ELSE /\ page' = page + 1
                   /\ IF o = "ok"
                        THEN /\ pc' = "page_start"
                             /\ UNCHANGED pageFault
                        ELSE /\ pageFault' = TRUE
                             /\ pc' = "finish"
  /\ UNCHANGED <<request, addrVars, extractVars, runs, new_run, statuses, outcome, dateVars, sessionVars,
                 loginVars, filterVars, waitVars, cache, intakeVars, lastSid, promptMark,
                 sitePages, visited, rowCount, i, failedRows, savedRows, shrunk,
                 rowFaults, records>>
  /\ refreshLen' = 0   \* the row loop is over: the list is fetched anew before its next use

\* Lines 535-539 and 545-547: the success status and response.
Finish ==
  /\ pc = "finish"
  /\ statuses' = create_status(statuses, MSG_COMPLETED)
  /\ outcome' = "success"
  /\ driver' = "quit"
  /\ quits' = quits + 1
  /\ pc' = "done"
  /\ UNCHANGED <<request, addrVars, extractVars, runs, new_run, dateVars, loginVars, filterVars, waitVars, cache,
                 intakeVars, lastSid, promptMark, faults, siteVars, rowVars, records>>

Next ==
  \/ GetStatus
  \/ OperatorLeaves
  \/ BrowserTime
  \/ TriggerScrape
  \/ OtherRequest
  \/ DriverOpen
  \/ LanguageSwitch
  \/ LoginAttempt
  \/ LoginAfterWait
  \/ LoginFailed
  \/ WaitPoll
  \/ WaitDelete
  \/ Navigate
  \/ FiltersAttempt
  \/ FiltersAfterWait
  \/ FiltersFailed
  \/ ResultsWait
  \/ PageStart
  \/ RowStep
  \/ Paginate
  \/ Finish

Spec == Init /\ [][Next]_vars

(***************************************************************************)
(* The request thread keeps running: a step of trigger_scrape or of the    *)
(* relay that can be taken is taken.  An operator who has nothing left to  *)
(* post is counted as gone.                                                *)
(***************************************************************************)
RunStep ==
  \/ DriverOpen \/ LanguageSwitch \/ LoginAttempt \/ LoginAfterWait \/ LoginFailed
  \/ WaitPoll \/ WaitDelete \/ Navigate \/ FiltersAttempt \/ FiltersAfterWait
  \/ FiltersFailed \/ ResultsWait \/ PageStart \/ RowStep \/ Paginate \/ Finish

FairSpec == Spec /\ WF_vars(RunStep) /\ WF_vars(OperatorLeaves)

(***************************************************************************)
(* parse_address on its own: any address of the bounded set is parsed.     *)
(***************************************************************************)
AddrInit ==
  /\ RunInit
  /\ addr \in AddrInputs
  /\ parsed = EmptyDict
  /\ ExtractIdle

ParseAddress ==
  /\ DOMAIN parsed = {}
  /\ parsed' = parse_address(addr)
  /\ UNCHANGED <<pc, request, addr, extractVars, runs, new_run, statuses, outcome, dateVars,
                 sessionVars, loginVars, filterVars, waitVars, cache, intakeVars, lastSid,
                 promptMark, faults, siteVars, rowVars, records>>

AddrNext == ParseAddress

AddrSpec == AddrInit /\ [][AddrNext]_vars

(***************************************************************************)
(* The extraction of one section of one row on its own: the lists read     *)
(* from the page are any label list and any value list of the bounded      *)
(* sets, of equal length or not.                                           *)
(***************************************************************************)
ExtractInit ==
  /\ RunInit
  /\ addr = <<>>
  /\ parsed = EmptyDict
  /\ epc = "read"
  /\ section \in SectionNames
  /\ headings \in SeqsUpTo(Labels, MaxFields)
  /\ data_texts \in SeqsUpTo(CellTexts, MaxFields)
  /\ section_lists = <<<<>>, <<>>>>
  /\ stored = EmptyDict

\* Lines 476-495: the entry of the section in all_sections.
BuildSections ==
  /\ epc = "read"
  /\ LET final_data_texts_4   == AugmentLoop(<<>>, zip(headings, data_texts))
         headings_4_parsed    == Firsts(final_data_texts_4)
         data_texts_4_parsed  == Seconds(final_data_texts_4)
     IN  section_lists' = IF section = "property"
                            THEN <<headings_4_parsed, data_texts_4_parsed>>
                            ELSE <<headings, data_texts>>
  /\ epc' = "built"
  /\ UNCHANGED <<pc, request, addrVars, section, headings, data_texts, stored, runs,
                 new_run, statuses, outcome, dateVars, sessionVars, loginVars, filterVars,
                 waitVars, cache, intakeVars, lastSid, promptMark, faults, siteVars,
                 rowVars, records>>

\* Lines 498 and 178-184: the section is stored in the new ScrapedRecord.
SaveSection ==
  /\ epc = "built"
  /\ stored' = dict(EmptyDict, zip(section_lists[1], section_lists[2]))
  /\ records' = save_to_db(records, TRUE)
  /\ epc' = "saved"
  /\ UNCHANGED <<pc, request, addrVars, section, headings, data_texts, section_lists,
                 runs, new_run, statuses, outcome, dateVars, sessionVars, loginVars,
                 filterVars, waitVars, cache, intakeVars, lastSid, promptMark, faults,
                 siteVars, rowVars>>

ExtractNext == BuildSections \/ SaveSection

ExtractSpec == ExtractInit /\ [][ExtractNext]_vars


(***************************************************************************)
(* C1: in every run that opened a browser session, driver.quit() has been  *)
(* called exactly once when the request returns, whatever the exit path.   *)
(***************************************************************************)
C1_QuitExactlyOnce ==
  (pc = "done" /\ driver # "unbound") => quits = 1

(***************************************************************************)
(* C2: once the await of the login checkpoint has timed out on ten         *)
(* attempts, the run can only end as login-exhausted, and its ledger holds *)
(* no filter-phase StatusEvent.                                            *)
(***************************************************************************)
C2_LoginExhausted ==
  Count(statuses, MSG_TIMEOUT1) = max_attempts =>
    /\ pc \in {"login_loop", "done"}
    /\ pc = "done" => outcome = "login_exhausted"
    /\ \A m \in FilterPhaseMsgs : Count(statuses, m) = 0

C2_Witness ==
  /\ pc = "done"
  /\ outcome = "login_exhausted"
  /\ Count(statuses, MSG_TIMEOUT1) = max_attempts
  /\ Count(statuses, MSG_PROMPT1) = max_attempts

(***************************************************************************)
(* C3: an answer that was posted for an earlier prompt is never returned   *)
(* to the await of a later prompt: the answer an await is about to return, *)
(* if it was posted when some prompt was out, was posted when the prompt   *)
(* of that await was out.                                                  *)
(***************************************************************************)
C3_NoStaleAnswer ==
  (pc = "w_del" /\ got.np > 0) => got.np = NumPrompts(statuses)

(***************************************************************************)
(* C4: the read and the clear of the slot are one step for the intake: the *)
(* entry that cache.delete removes is the entry that is returned.          *)
(***************************************************************************)
C4_ReadAndClearAtomic ==
  [][(pc = "w_del" /\ pc' = "after_wait") => cache[new_run] = got]_vars

(***************************************************************************)
(* C5: an await called with a value in the slot returns it on its first    *)
(* poll, before any sleep; the return leaves the slot empty; a submission  *)
(* is returned by at most one await (the submission an await returns is    *)
(* newer than every submission returned before).                           *)
(***************************************************************************)
C5_ConsumedOnce ==
  [][ /\ ( /\ pc = "poll" /\ waited = 0 /\ CacheGet(cache, new_run) # NoEntry
           /\ nsub' = nsub /\ operatorGone' = operatorGone /\ runs' = runs )
         => (pc' = "w_del" /\ waited' = 0 /\ got' = CacheGet(cache, new_run))
      /\ (pc = "w_del" /\ pc' = "after_wait")
         => ( /\ captcha_value' = got.val
              /\ cache'[new_run] = NoEntry
              /\ got.sid > lastSid )
    ]_vars

\* An await returned a value that was posted before its prompt.
C5_Witness ==
  /\ pc = "after_wait"
  /\ captcha_value # None
  /\ lastSid > 0 /\ lastSid <= promptMark
  /\ cache[new_run] = NoEntry

(***************************************************************************)
(* C6: an await that gives up has neither written nor deleted the slot:    *)
(* a sleeping poll only lets the time pass, and the return of None leaves  *)
(* the cache as it is.                                                     *)
(***************************************************************************)
C6_TimeoutLeavesSlot ==
  [][ /\ (pc = "poll" /\ pc' = "poll" /\ waited' # waited)
         => cache' = Aged(cache, poll_interval)
      /\ (pc = "poll" /\ pc' = "after_wait")
         => (cache' = cache /\ captcha_value' = None)
    ]_vars

\* An await gave up although a value, posted during its last sleep, is in the slot.
C6_Witness ==
  /\ pc = "after_wait"
  /\ captcha_value = None
  /\ CacheGet(cache, new_run) # NoEntry

(***************************************************************************)
(* C7: the value an await is about to return is younger than its           *)
(* time-to-live of 300 time units.                                         *)
(***************************************************************************)
C7_NeverReturnedExpired ==
  pc = "w_del" => (got # NoEntry /\ got.age < CAPTCHA_TTL)

\* An await has slept over a value that had expired before the await began.
C7_Witness ==
  /\ pc = "poll"
  /\ waited > 0
  /\ cache[new_run] # NoEntry
  /\ cache[new_run].age >= CAPTCHA_TTL

(***************************************************************************)
(* C8: a row that fails does not end the row loop: the loop goes on with   *)
(* the next index, nothing is stored for the row and the request has not   *)
(* returned; at the end of a page whose table did not shrink every index   *)
(* was attempted and as many records were stored as rows did not fail.     *)
(***************************************************************************)
C8_RowIsolation ==
  /\ [](pc = "paginate" /\ ~shrunk
          => (i = rowCount /\ savedRows = rowCount - failedRows))
  /\ [][ (pc = "rows" /\ rowFaults' # rowFaults)
           => ( /\ pc' = (IF i + 1 < rowCount THEN "rows" ELSE "paginate")
                /\ i' = i + 1
                /\ records' = records
                /\ outcome' = outcome
                /\ driver' = driver )
       ]_vars

\* A run succeeded although one of the rows of its last page had failed.
C8_Witness ==
  /\ pc = "done"
  /\ outcome = "success"
  /\ rowCount = MaxRows
  /\ failedRows = 1
  /\ savedRows = MaxRows - 1
  /\ rowFaults = 1

(***************************************************************************)
(* C9: the pages are visited in order, each once; when the loop is left at *)
(* the disabled next control all N pages have been visited; a request that *)
(* has visited all N pages returns success.                                *)
(***************************************************************************)
C9_PagesInOrder ==
  /\ \A k \in 1..Len(visited) : visited[k] = k
  /\ Len(visited) <= sitePages
  /\ (pc = "finish" /\ ~pageFault) => Len(visited) = sitePages
  /\ (pc = "done" /\ sitePages > 0 /\ Len(visited) = sitePages) => outcome = "success"

C9_Witness ==
  /\ pc = "done"
  /\ outcome = "success"
  /\ sitePages = MaxPages
  /\ visited = [k \in 1..MaxPages |-> k]
  /\ ~pageFault

(***************************************************************************)
(* C10: a POST whose date_from or date_to is not a valid YYYY-MM-DD date   *)
(* (four digits, two digits, two digits, a date of the calendar) ends as   *)
(* invalid input: no driver, no quit, no CAPTCHA prompt.                   *)
(***************************************************************************)
C10_IsDate(s) ==
  /\ s.fmt = "dash"
  /\ s.m >= 1 /\ s.m <= 12
  /\ s.d >= 1
  /\ s.d <= (IF s.m = 2 THEN (IF s.y % 4 = 0 /\ (s.y % 100 # 0 \/ s.y % 400 = 0)
                                THEN 29 ELSE 28)
             ELSE IF s.m \in {4, 6, 9, 11} THEN 30 ELSE 31)

C10_Rejected ==
  /\ pc = "done"
  /\ outcome = "invalid_input"
  /\ driver = "unbound"
  /\ quits = 0
  /\ NumPrompts(statuses) = 0
  /\ Count(statuses, MSG_INVALID_DATE) = 1

C10_StrictLayout ==
  ( /\ request.method = "POST"
    /\ \E s \in {date_from, date_too} \cap DateInputs :
         ~(C10_IsDate(s) /\ s.mw = 2 /\ s.dw = 2) )
  => C10_Rejected

(***************************************************************************)
(* C10, amended: a POST whose date_from or date_to is absent or is not a   *)
(* text strptime takes for "%Y-%m-%d" (a four-digit year, a month and a    *)
(* day of one or two digits each, joined by "-", a date of the calendar)   *)
(* ends as invalid input: no driver, no quit, no CAPTCHA prompt.           *)
(***************************************************************************)
C10_InvalidDateRejected ==
  ( /\ request.method = "POST"
    /\ \E s \in {date_from, date_too} \cap DateInputs : ~C10_IsDate(s) )
  => C10_Rejected

C10_Witness ==
  /\ outcome = "invalid_input"
  /\ date_from.fmt = "slash"
  /\ C10_IsDate(date_too)

(***************************************************************************)
(* C11: when the request of a POST has returned, the last status of the    *)
(* run is one of the statuses that describe a terminal outcome, and the    *)
(* run holds exactly one such status.                                      *)
(***************************************************************************)
C11_FinalMsgs ==
  {MSG_INVALID_DATE, MSG_LOGIN_FAILED, MSG_CAPTCHA2_FAILED, MSG_COMPLETED, MSG_ERROR}

C11_FinalStatus ==
  (pc = "done" /\ request.method = "POST") =>
    /\ statuses.last \in C11_FinalMsgs
    /\ Cardinality({m \in C11_FinalMsgs : Count(statuses, m) > 0}) = 1
    /\ \A m \in C11_FinalMsgs : Count(statuses, m) <= 1

(***************************************************************************)
(* C14: a browser fault inside a login or filters attempt never ends the   *)
(* run: the attempt is counted and the loop goes on; the request returns   *)
(* from inside a loop position only when all ten attempts are used.        *)
(***************************************************************************)
C14_InLoginAttempt == pc = "login_loop" \/ (pc = "after_wait" /\ caller = "login")

C14_InFiltersAttempt == pc = "filters_loop" \/ (pc = "after_wait" /\ caller = "filters")

C14_FaultsSwallowed ==
  [][ /\ (C14_InLoginAttempt /\ faults' # faults)
         => (pc' = "login_loop" /\ attempt' = attempt + 1 /\ outcome' = outcome)
      /\ (C14_InFiltersAttempt /\ faults' # faults)
         => (pc' = "filters_loop" /\ retry' = retry + 1 /\ outcome' = outcome)
      /\ (C14_InLoginAttempt /\ pc' = "done") => attempt = max_attempts
      /\ (C14_InFiltersAttempt /\ pc' = "done") => retry = max_attempts
    ]_vars

(***************************************************************************)
(* C14, amended: a browser call that raises inside a login or filters      *)
(* attempt never ends the run: the attempt is counted and the loop goes    *)
(* on.  The login loop is left only by success or with all ten attempts    *)
(* used; the filters loop is left only by success, with all ten attempts   *)
(* used, or by the return of the attempt that finds fewer than three       *)
(* "other details" options.                                                *)
(***************************************************************************)
C14_RaisesSwallowed ==
  [][ /\ (C14_InLoginAttempt /\ faults' # faults)
         => (pc' = "login_loop" /\ attempt' = attempt + 1 /\ outcome' = outcome)
      /\ (C14_InFiltersAttempt /\ faults' # faults)
         => \/ (pc' = "filters_loop" /\ retry' = retry + 1 /\ outcome' = outcome)
            \/ (pc = "filters_loop" /\ pc' = "done" /\ outcome' = "other_missing")
      /\ (C14_InLoginAttempt /\ pc' = "done") => attempt = max_attempts
      /\ (C14_InFiltersAttempt /\ pc' = "done")
         => (retry = max_attempts \/ outcome' = "other_missing")
    ]_vars

\* The second filters attempt is about to start after the first one raised.
C14_Witness ==
  /\ pc = "filters_loop"
  /\ retry = 1
  /\ faults = 1
  /\ Count(statuses, MSG_PROMPT2) = 0

(***************************************************************************)
(* C15: a run publishes at most ten CAPTCHA #1 and at most ten CAPTCHA #2  *)
(* prompts; it returns login-exhausted (filters-exhausted) only with all   *)
(* ten attempts of that loop used and none successful; login_success is    *)
(* set only by the attempt whose wait for the changed URL came back good.  *)
(***************************************************************************)
C15_BoundedPrompts ==
  /\ [](/\ Count(statuses, MSG_PROMPT1) <= max_attempts
        /\ Count(statuses, MSG_PROMPT2) <= max_attempts
        /\ attempt <= max_attempts
        /\ retry <= max_attempts
        /\ outcome = "login_exhausted" => (attempt = max_attempts /\ ~login_success)
        /\ outcome = "filters_exhausted" => (retry = max_attempts /\ ~captcha2_success))
  /\ [][ (login_success' /\ ~login_success)
           => ( /\ pc = "after_wait" /\ caller = "login"
                /\ captcha_value # None
                /\ faults' = faults
                /\ statuses'.last = MSG_SOLVED1 )
       ]_vars

\* The filters loop used its ten attempts, with a prompt in each.
C15_Witness ==
  /\ pc = "done"
  /\ outcome = "filters_exhausted"
  /\ retry = max_attempts
  /\ Count(statuses, MSG_PROMPT2) = max_attempts
  /\ login_success

(***************************************************************************)
(* C16: a filter-phase status is published only in a run that holds the    *)
(* "logged in" status, and once a run holds that status or a filter-phase  *)
(* status no CAPTCHA #1 prompt is published.                               *)
(***************************************************************************)
C16_FiltersAfterLogin ==
  /\ []((\E m \in FilterPhaseMsgs : Count(statuses, m) > 0)
          => (Count(statuses, MSG_SOLVED1) = 1 /\ login_success))
  /\ [][ /\ (\E m \in FilterPhaseMsgs : Count(statuses', m) > Count(statuses, m))
            => Count(statuses, MSG_SOLVED1) = 1
         /\ (Count(statuses', MSG_PROMPT1) > Count(statuses, MSG_PROMPT1))
            => ( /\ Count(statuses, MSG_SOLVED1) = 0
                 /\ \A m \in FilterPhaseMsgs : Count(statuses, m) = 0 )
       ]_vars

\* The second prompt is out after a login that took two prompts.
C16_Witness ==
  /\ Count(statuses, MSG_PROMPT2) > 0
  /\ Count(statuses, MSG_SOLVED1) = 1
  /\ Count(statuses, MSG_PROMPT1) = 2

(***************************************************************************)
(* C17: a prompt status is published exactly in the step that calls        *)
(* _wait_for_captcha_value, one per call, and while the relay is awaiting  *)
(* the last status of the run is the prompt of the awaiting checkpoint.    *)
(***************************************************************************)
C17_PromptOf == IF caller = "login" THEN MSG_PROMPT1 ELSE MSG_PROMPT2

C17_OnePromptPerAwait ==
  /\ [](pc \in {"poll", "w_del"} => statuses.last = C17_PromptOf)
  /\ [][ /\ (pc \notin {"poll", "w_del"} /\ pc' = "poll")
            => NumPrompts(statuses') = NumPrompts(statuses) + 1
         /\ (NumPrompts(statuses') # NumPrompts(statuses))
            => (pc \notin {"poll", "w_del"} /\ pc' = "poll")
       ]_vars

\* The relay has slept while the second prompt is out.
C17_Witness ==
  /\ pc = "poll"
  /\ caller = "filters"
  /\ waited > 0
  /\ statuses.last = MSG_PROMPT2

(***************************************************************************)
(* C18: a request that only displays the scrape form creates no Run.       *)
(***************************************************************************)
C18_FormCreatesNoRun ==
  (pc = "done" /\ outcome = "form") => (runs = 0 /\ new_run = 0)

(***************************************************************************)
(* C19: an exception at the next control ends the page loop, and the       *)
(* request then returns success, not the error outcome.                    *)
(***************************************************************************)
C19_PaginationFaultIsDone ==
  /\ [](pageFault => (pc \in {"finish", "done"} /\ outcome \in {"none", "success"}))
  /\ [][ (pc = "paginate" /\ faults' # faults)
           => (pageFault' /\ pc' = "finish" /\ outcome' = outcome /\ driver' = driver)
       ]_vars

\* A run returned success after the next control of a page before the last raised.
C19_Witness ==
  /\ pc = "done"
  /\ outcome = "success"
  /\ pageFault
  /\ Len(visited) < sitePages
  /\ statuses.last = MSG_COMPLETED

(***************************************************************************)
(* C20: a row is opened at index i only when i is smaller than the count   *)
(* the refresh of that turn returned; when the refreshed count is i or     *)
(* less the row loop is left: nothing is opened or stored, no fault is     *)
(* counted and the request does not return an error.                       *)
(***************************************************************************)
C20_RowBoundsChecked ==
  [][ /\ ( /\ pc = "rows"
           /\ \/ Count(statuses', FetchingMsg(i)) > Count(statuses, FetchingMsg(i))
              \/ records' # records
              \/ (i' = i + 1 /\ rowFaults' = rowFaults) )
         => i < refreshLen'
      /\ (pc = "rows" /\ shrunk' /\ ~shrunk)
         => ( /\ refreshLen' <= i
              /\ pc' = "paginate"
              /\ i' = i /\ records' = records /\ statuses' = statuses
              /\ faults' = faults /\ outcome' = outcome /\ driver' = driver )
    ]_vars

\* The row loop was left in its second turn, after one record was stored, because
\* the refreshed list had one row or none.
C20_Witness ==
  /\ pc = "paginate"
  /\ shrunk
  /\ i = 1
  /\ refreshLen <= 1
  /\ savedRows = 1

(***************************************************************************)
(* C13: the mapping parse_address returns has exactly the nine keys, for   *)
(* every address, the empty one included; the value of a key whose label   *)
(* is not in the address is the empty string.                              *)
(***************************************************************************)
C13_NineKeys ==
  {"Ward/Colony", "District", "Village", "Sub-Area/Road", "Tehsil/Locality", "PIN Code",
   "Landmark", "State", "Country"}

C13_LabelOf ==
  [k \in C13_NineKeys |->
     CASE k = "Ward/Colony" -> "Ward Colony -"  [] k = "District" -> "Distirct:"
       [] k = "Village" -> "Village:"           [] k = "Sub-Area/Road" -> "Sub-Area:"
       [] k = "Tehsil/Locality" -> "Tehsil:"    [] k = "PIN Code" -> "pin-"
       [] k = "Landmark" -> "m from"            [] k = "State" -> "Madhya Pradesh"
       [] k = "Country" -> "India"]

C13_AlwaysNineKeys ==
  DOMAIN parsed # {} =>
    /\ DOMAIN parsed = C13_NineKeys
    /\ \A k \in C13_NineKeys :
         (\A n \in 1..Len(addr) : addr[n].label # C13_LabelOf[k]) => parsed[k] = ""
    /\ addr = <<>> => \A k \in C13_NineKeys : parsed[k] = ""

\* An address with a village and a PIN of four digits was parsed: some keys have
\* a value, the others the empty string.
C13_Witness ==
  /\ DOMAIN parsed # {}
  /\ Len(addr) = 2
  /\ parsed["Village"] = "Rampur"
  /\ parsed["PIN Code"] = ""
  /\ \E n \in 1..Len(addr) : addr[n].label = "pin-"

(***************************************************************************)
(* C12: an await never makes more than timeout / poll_interval = 180       *)
(* polls; a request that has opened its browser session returns; and when  *)
(* nothing was ever posted, a request that got to the login loop has       *)
(* returned login-exhausted, after ten prompts at most.                    *)
(***************************************************************************)
C12_NoEndlessWait ==
  /\ [](waited * poll_interval <= CAPTCHA_WAIT_SECONDS)
  /\ []((pc = "done" /\ nsub = 0 /\ Count(statuses, MSG_FILLING_LOGIN) > 0)
          => ( /\ outcome = "login_exhausted"
               /\ Count(statuses, MSG_PROMPT1) <= max_attempts
               /\ Count(statuses, MSG_PROMPT1) = Count(statuses, MSG_TIMEOUT1) ))
  /\ (pc = "login_loop" /\ attempt = 0) ~> (pc = "done")

\* Nothing was posted and every one of the ten awaits made its 180 polls.
C12_Witness ==
  /\ pc = "done"
  /\ outcome = "login_exhausted"
  /\ nsub = 0
  /\ operatorGone
  /\ faults = 0
  /\ Count(statuses, MSG_TIMEOUT1) = max_attempts

(***************************************************************************)
(* C21.  In the property section, each field whose label contains          *)
(* "address", in any case, is replaced at its position by the nine         *)
(* address label/value pairs in their fixed order; every other field keeps *)
(* its label, its value and its place among the others; the label list and *)
(* the value list that result are equally long.  A field is a label with   *)
(* the value at the same position.                                         *)
(***************************************************************************)
C21_NineLabels ==
  <<"Ward/Colony", "District", "Village", "Sub-Area/Road", "Tehsil/Locality", "PIN Code",
    "Landmark", "State", "Country">>

C21_AddressLabels == {"Property Address"}

\* What the address in a cell text says about a key.
C21_FieldOf(text, key) ==
  IF text = "Village: Rampur, pin-462001" /\ key = "Village" THEN "Rampur"
  ELSE IF text = "Village: Rampur, pin-462001" /\ key = "PIN Code" THEN "462001"
  ELSE ""

C21_Fields == IF Len(headings) < Len(data_texts) THEN Len(headings) ELSE Len(data_texts)

\* The number of entries the fields before field k turn into.
RECURSIVE C21_Offset(_)
C21_Offset(k) ==
  IF k <= 1 THEN 0
  ELSE C21_Offset(k - 1) + (IF headings[k - 1] \in C21_AddressLabels THEN 9 ELSE 1)

C21_AddressInPlace ==
  (epc # "read" /\ section = "property") =>
    LET L == section_lists[1]
        V == section_lists[2]
    IN  /\ Len(L) = Len(V)
        /\ Len(L) = C21_Offset(C21_Fields + 1)
        /\ \A k \in 1..C21_Fields :
             IF headings[k] \in C21_AddressLabels
               THEN \A j \in 1..9 :
                      /\ L[C21_Offset(k) + j] = C21_NineLabels[j]
                      /\ V[C21_Offset(k) + j] = C21_FieldOf(data_texts[k], C21_NineLabels[j])
               ELSE /\ L[C21_Offset(k) + 1] = headings[k]
                    /\ V[C21_Offset(k) + 1] = data_texts[k]

\* An address field between two other fields has been replaced.
C21_Witness ==
  /\ epc = "built"
  /\ section = "property"
  /\ headings = <<"Area", "Property Address", "District">>
  /\ data_texts = <<"Bhopal", "Village: Rampur, pin-462001", "">>
  /\ Len(section_lists[1]) = 11
  /\ section_lists[2][4] = "Rampur"

(***************************************************************************)
(* C22.  For each of the five sections, when the label list and the value  *)
(* list differ in length, the stored section pairs the label at each       *)
(* position below the shorter length with the value at that position, and  *)
(* holds nothing else; the excess is dropped, no error is raised and the   *)
(* row is saved.                                                           *)
(***************************************************************************)
C22_ZipToShorter ==
  (epc = "saved" /\ Len(headings) # Len(data_texts)) =>
    LET L == section_lists[1]
        V == section_lists[2]
        n == IF section = "property" THEN C21_Offset(C21_Fields + 1) ELSE C21_Fields
    IN  /\ DOMAIN stored = {L[k] : k \in 1..n}
        /\ \A k \in 1..n : stored[L[k]] = V[k]
        /\ records = 1

(***************************************************************************)
(* C23.  A non-empty value posted to get_status while the run is blocked   *)
(* in _wait_for_captcha_value is written to the slot of that run, and the  *)
(* await returns a value: it does not time out once something was posted   *)
(* during it, whatever other requests trigger_scrape has served meanwhile. *)
(***************************************************************************)
C23_IntakeReachesWaiter ==
  [][ /\ (pc = "poll" /\ nsub' = nsub + 1) => cache'[new_run].sid = nsub'
      /\ (pc = "poll" /\ pc' = "after_wait") => nsub = promptMark ]_vars

(***************************************************************************)
(* C24.  The "Scraping completed successfully" status and the success      *)
(* response come only in a run where both checkpoints passed: the login    *)
(* succeeded and the search behind CAPTCHA #2 succeeded.  No record is     *)
(* saved by a run before its CAPTCHA #2 checkpoint has passed.             *)
(***************************************************************************)
C24_SuccessAfterCheckpoints ==
  /\ (outcome = "success" \/ Count(statuses, MSG_COMPLETED) > 0) =>
       /\ login_success
       /\ captcha2_success
       /\ Count(statuses, MSG_SOLVED1) = 1
       /\ Count(statuses, MSG_SOLVED2) = 1
  /\ (records > 0 \/ savedRows > 0) =>
       /\ captcha2_success
       /\ Count(statuses, MSG_SOLVED2) = 1

\* A run that passed both checkpoints, saved a record and reported success.
C24_Witness ==
  /\ pc = "done"
  /\ outcome = "success"
  /\ Count(statuses, MSG_COMPLETED) = 1
  /\ records > 0
  /\ login_success
  /\ captcha2_success

====
